---- MODULE Spec2Model ----
(***************************************************************************)
(* A model of airportdownload.py: the script downloads two CSV tables,     *)
(* builds one record per airport, attaches the VHF frequencies of the      *)
(* frequency table to the airports, deduplicates each airport's list,      *)
(* drops the airports left without a frequency, writes the JSON file and   *)
(* prints two report lines.                                                *)
(*                                                                         *)
(* Representation of the Python values:                                    *)
(*  - a CSV row is a record of its fields plus `absent`, the set of the    *)
(*    columns the line did not have (csv.DictReader fills those with None);*)
(*  - an airport code is a string;                                         *)
(*  - a numeric field (lat, lon, frequency) is the sequence of its         *)
(*    characters, so that float() is a parser;                             *)
(*  - a type field is the sequence of its maximal runs of whitespace and   *)
(*    of non-whitespace characters, so that str.strip() removes something; *)
(*  - a float is an exact decimal fraction [neg, num, den];                *)
(*  - a frequency entry is [kind, f, t] with kind "int" (a bare number),   *)
(*    "dict" ({"f": f, "t": t}) or "list" ([f, t]);                        *)
(*  - a dict is the sequence of its items in insertion order;               *)
(*  - fetched is the sequence of the responses urlopen has produced, exc   *)
(*    the exception that ended the run, stdout the numbers printed.        *)
(***************************************************************************)
EXTENDS FiniteSets, Integers, Sequences, TLC

VARIABLES pc, exc, fetched, airports_reader, airports, freq_reader,
          TYPE_MAP_bound, airport_list, output_file, stdout

vars == <<pc, exc, fetched, airports_reader, airports, freq_reader,
          TYPE_MAP_bound, airport_list, output_file, stdout>>

VHF_MIN == 108

VHF_MAX == 137

KHZ_THRESHOLD == 500

TYPE_MAP ==
  [k \in {"CTAF", "UNICOM", "TOWER", "GROUND", "APP", "ATIS", "DEP", "MISC",
          "ASOW", "FSS", "RADIO", "CLD", "INFO", "AFIS", "A/G", "OPS",
          "RADAR", "APRON", "ATF", "RCO", "TRAFFIC", "TMA", "ASOS", "PAL",
          "AAS", "DIR", "GCA", "A/A", "FCC", "ACP", "TIBA", "A/D", "ACC",
          "ARTC"} |->
     CASE k = "CTAF" -> "C"    [] k = "UNICOM" -> "U"  [] k = "TOWER" -> "T"
       [] k = "GROUND" -> "G"  [] k = "APP" -> "A"     [] k = "ATIS" -> "I"
       [] k = "DEP" -> "D"     [] k = "MISC" -> "M"    [] k = "ASOW" -> "S"
       [] k = "FSS" -> "F"     [] k = "RADIO" -> "R"   [] k = "CLD" -> "L"
       [] k = "INFO" -> "N"    [] k = "AFIS" -> "Z"    [] k = "A/G" -> "Y"
       [] k = "OPS" -> "O"     [] k = "RADAR" -> "X"   [] k = "APRON" -> "P"
       [] k = "ATF" -> "H"     [] k = "RCO" -> "Q"     [] k = "TRAFFIC" -> "V"
       [] k = "TMA" -> "W"     [] k = "ASOS" -> "B"    [] k = "PAL" -> "J"
       [] k = "AAS" -> "K"     [] k = "DIR" -> "E"     [] k = "GCA" -> "Y"
       [] k = "A/A" -> "AA"    [] k = "FCC" -> "FC"    [] k = "ACP" -> "AC"
       [] k = "TIBA" -> "TB"   [] k = "A/D" -> "AD"    [] k = "ACC" -> "CC"
       [] k = "ARTC" -> "RT"]

(***************************************************************************)
(* float(): an optional "-", digits, at most one ".", at least one digit.  *)
(* Everything else the inputs below contain raises ValueError.  (Python    *)
(* also accepts exponents, "inf", "nan", "+", underscores and surrounding  *)
(* blanks: the inputs contain none of those.)                              *)
(***************************************************************************)
Digits == {"0", "1", "2", "3", "4", "5", "6", "7", "8", "9"}

DigitVal(c) ==
  CASE c = "0" -> 0 [] c = "1" -> 1 [] c = "2" -> 2 [] c = "3" -> 3
    [] c = "4" -> 4 [] c = "5" -> 5 [] c = "6" -> 6 [] c = "7" -> 7
    [] c = "8" -> 8 [] c = "9" -> 9

RECURSIVE ParseDigits(_, _, _, _, _)
ParseDigits(s, num, den, seenDot, nDigits) ==
  IF s = <<>>
  THEN [ok |-> nDigits > 0, num |-> num, den |-> den]
  ELSE IF Head(s) \in Digits
       THEN ParseDigits(Tail(s), 10 * num + DigitVal(Head(s)),
                        IF seenDot THEN 10 * den ELSE den, seenDot, nDigits + 1)
       ELSE IF Head(s) = "." /\ ~seenDot
            THEN ParseDigits(Tail(s), num, den, TRUE, nDigits)
            ELSE [ok |-> FALSE, num |-> 0, den |-> 1]

float(s) ==
  LET neg  == s # <<>> /\ Head(s) = "-"
      body == IF neg THEN Tail(s) ELSE s
      p    == ParseDigits(body, 0, 1, FALSE, 0)
  IN  [ok |-> p.ok, neg |-> neg /\ p.num # 0, num |-> p.num, den |-> p.den]

(* round(x * scale) for a non-negative fraction num/den, ties to even      *)
RoundHalfEven(num, den) ==
  LET q == num \div den
      r == num % den
  IN  IF 2 * r < den THEN q
      ELSE IF 2 * r > den THEN q + 1
      ELSE IF q % 2 = 0 THEN q ELSE q + 1

(* round(float(x), 3), kept as a signed number of thousandths              *)
round3(x) ==
  LET m == RoundHalfEven(1000 * x.num, x.den)
  IN  IF x.neg THEN 0 - m ELSE m

(* str.strip() of a type field                                             *)
IsSpace(tok) == tok \in {" ", "  ", "\t"}

RECURSIVE LStrip(_)
LStrip(toks) ==
  IF toks # <<>> /\ IsSpace(Head(toks)) THEN LStrip(Tail(toks)) ELSE toks

RECURSIVE RStrip(_)
RStrip(toks) ==
  IF toks # <<>> /\ IsSpace(toks[Len(toks)])
  THEN RStrip(SubSeq(toks, 1, Len(toks) - 1))
  ELSE toks

RECURSIVE Join(_)
Join(toks) == IF toks = <<>> THEN "" ELSE Head(toks) \o Join(Tail(toks))

strip(toks) == Join(RStrip(LStrip(toks)))

(* row.get(key) is None                                                    *)
IsNone(row, key) == key \in row.absent

(* The truth value Python gives a field: neither None nor empty            *)
Truthy(row, key, empty) == ~IsNone(row, key) /\ row[key] # empty

(***************************************************************************)
(* The dict `airports`: items in insertion order, keyed by the field c.    *)
(***************************************************************************)
DictKeys(d) == {d[i].c : i \in 1..Len(d)}

DictIndex(d, key) == CHOOSE i \in 1..Len(d) : d[i].c = key

DictSet(d, item) ==
  IF item.c \in DictKeys(d)
  THEN [d EXCEPT ![DictIndex(d, item.c)] = item]
  ELSE Append(d, item)

(* The body of the airport loop for one row                                *)
LoadAirportRow(aps, row) ==
  IF Truthy(row, "ICAO", "") /\ Truthy(row, "lat", <<>>) /\ Truthy(row, "lon", <<>>)
  THEN LET lat == float(row.lat)
           lon == float(row.lon)
       IN  IF lat.ok /\ lon.ok
           THEN DictSet(aps, [c |-> row.ICAO,
                              l |-> <<round3(lat), round3(lon)>>,
                              f |-> <<>>])
           ELSE aps
  ELSE aps

RECURSIVE LoadAirports(_, _)
LoadAirports(aps, rows) ==
  IF rows = <<>> THEN aps
  ELSE LoadAirports(LoadAirportRow(aps, Head(rows)), Tail(rows))

(***************************************************************************)
(* The frequency validation of one raw value: the kHz value, or 0 when no  *)
(* entry is produced (ValueError, or out of the band).                     *)
(***************************************************************************)
(* A variant: the band without its two limits                              *)
InBandExclusive(num, den) == VHF_MIN * den < num /\ num < VHF_MAX * den

InBand(num, den) == VHF_MIN * den <= num /\ num <= VHF_MAX * den

FreqKhz(freq_raw) ==
  LET f   == float(freq_raw)
      den == IF f.num > KHZ_THRESHOLD * f.den THEN f.den * 1000 ELSE f.den
  IN  IF ~f.ok THEN 0
      ELSE IF f.neg THEN 0
      ELSE IF InBand(f.num, den) THEN RoundHalfEven(f.num * 1000, den)
      ELSE 0

FreqEntry(freq_khz, freq_type) ==
  IF freq_type # ""
  THEN [kind |-> "dict", f |-> freq_khz, t |-> freq_type]
  ELSE [kind |-> "int", f |-> freq_khz, t |-> ""]

(* The body of the frequency loop for one row: the new dict, and the       *)
(* exception that leaves the loop, if any.                                 *)
LoadFreqRow(aps, row) ==
  IF IsNone(row, "type")
  THEN [airports |-> aps, exc |-> "AttributeError"]
  ELSE LET freq_type == strip(row.type)
           freq_khz  == FreqKhz(row.frequency)
       IN  IF /\ ~IsNone(row, "airport")
              /\ row.airport \in DictKeys(aps)
              /\ Truthy(row, "frequency", <<>>)
              /\ freq_khz # 0
           THEN LET i == DictIndex(aps, row.airport)
                IN  [airports |->
                       [aps EXCEPT ![i].f = Append(@, FreqEntry(freq_khz, freq_type))],
                     exc |-> ""]
           ELSE [airports |-> aps, exc |-> ""]

RECURSIVE LoadFreqs(_, _)
LoadFreqs(aps, rows) ==
  IF rows = <<>> THEN [airports |-> aps, exc |-> ""]
  ELSE LET r == LoadFreqRow(aps, Head(rows))
       IN  IF r.exc # "" THEN r ELSE LoadFreqs(r.airports, Tail(rows))

(***************************************************************************)
(* Deduplication of one airport's list.  freq_dict is a dict from the      *)
(* frequency key to the entry kept for it, in insertion order.  A key must *)
(* be hashable: an int is, a list ([f, t]) raises TypeError.               *)
(***************************************************************************)
FreqDictHas(freq_dict, freq_key) ==
  \E i \in 1..Len(freq_dict) : freq_dict[i].f = freq_key

FreqDictPos(freq_dict, freq_key) ==
  CHOOSE i \in 1..Len(freq_dict) : freq_dict[i].f = freq_key

FreqDictSet(freq_dict, freq_key, freq) ==
  IF FreqDictHas(freq_dict, freq_key)
  THEN [freq_dict EXCEPT ![FreqDictPos(freq_dict, freq_key)] = freq]
  ELSE Append(freq_dict, freq)

(* A variant: whatever entry came first for a key is kept                  *)
DedupEntryFirstWins(freq_dict, freq) ==
  IF ~FreqDictHas(freq_dict, freq.f)
  THEN FreqDictSet(freq_dict, freq.f, freq)
  ELSE freq_dict

(* A variant: a typed entry replaces whatever is there                     *)
DedupEntryLastTypedWins(freq_dict, freq) ==
  IF freq.kind = "dict" \/ ~FreqDictHas(freq_dict, freq.f)
  THEN FreqDictSet(freq_dict, freq.f, freq)
  ELSE freq_dict

(* The body of the loop of lines 71-81 for one entry                       *)
DedupEntry(freq_dict, freq) ==
  IF freq.kind = "dict"
  THEN IF \/ ~FreqDictHas(freq_dict, freq.f)
          \/ freq_dict[FreqDictPos(freq_dict, freq.f)].kind # "dict"
       THEN FreqDictSet(freq_dict, freq.f, freq)
       ELSE freq_dict
  ELSE IF ~FreqDictHas(freq_dict, freq.f)
       THEN FreqDictSet(freq_dict, freq.f, freq)
       ELSE freq_dict

RECURSIVE FreqDict(_, _)
FreqDict(freq_dict, fs) ==
  IF fs = <<>> THEN freq_dict
  ELSE FreqDict(DedupEntry(freq_dict, Head(fs)), Tail(fs))

(* sorted(..., key=...): a stable insertion sort on the frequency          *)
RECURSIVE InsertSorted(_, _)
InsertSorted(sortedSeq, x) ==
  IF sortedSeq = <<>> THEN <<x>>
  ELSE IF x.f < Head(sortedSeq).f
       THEN <<x>> \o sortedSeq
       ELSE <<Head(sortedSeq)>> \o InsertSorted(Tail(sortedSeq), x)

(* A variant: the values in insertion order                                *)
sortedAsInserted(values) == values

RECURSIVE sorted(_)
sorted(values) ==
  IF values = <<>> THEN <<>>
  ELSE InsertSorted(sorted(SubSeq(values, 1, Len(values) - 1)), values[Len(values)])

(* A variant: TYPE_MAP.get(freq_type, "")                                  *)
TypeMapGetOrEmpty(freq_type) ==
  IF freq_type \in DOMAIN TYPE_MAP THEN TYPE_MAP[freq_type] ELSE ""

(* TYPE_MAP.get(freq_type, freq_type)                                      *)
TypeMapGet(freq_type) ==
  IF freq_type \in DOMAIN TYPE_MAP THEN TYPE_MAP[freq_type] ELSE freq_type

(* Lines 86-108 for one entry of freq_list                                 *)
Compact(freq) ==
  IF freq.kind = "dict"
  THEN [kind |-> "list", f |-> freq.f,
        t |-> IF freq.t # "" THEN TypeMapGet(freq.t) ELSE freq.t]
  ELSE freq

(* Does line 92 run for this entry: it binds the global name TYPE_MAP      *)
BindsTypeMap(freq) == freq.kind = "dict" /\ freq.t # ""

(* Lines 70-110 for one airport's list: the new list, whether TYPE_MAP was *)
(* bound on the way, and the exception raised, if any.                     *)
DedupList(fs) ==
  IF \E i \in 1..Len(fs) : fs[i].kind = "list"
  THEN [f |-> fs, bound |-> FALSE, exc |-> "TypeError"]
  ELSE LET freq_list == sorted(FreqDict(<<>>, fs))
       IN  [f     |-> [i \in 1..Len(freq_list) |-> Compact(freq_list[i])],
            bound |-> \E i \in 1..Len(freq_list) : BindsTypeMap(freq_list[i]),
            exc   |-> ""]

(* The loop of line 69 over all the airports                               *)
DedupAll(aps) ==
  [airports |-> [i \in 1..Len(aps) |-> [aps[i] EXCEPT !.f = DedupList(aps[i].f).f]],
   bound    |-> \E i \in 1..Len(aps) : DedupList(aps[i].f).bound,
   exc      |-> IF \E i \in 1..Len(aps) : DedupList(aps[i].f).exc # ""
                THEN "TypeError" ELSE ""]

(* A variant: every airport is kept                                        *)
KeepAll(aps) == aps

(* Line 113                                                                *)
KeepWithFrequencies(aps) == SelectSeq(aps, LAMBDA a : a.f # <<>>)

(***************************************************************************)
(* download_csv: urlopen raises, or the status is not 200 and the function *)
(* raises, or the table comes back.                                        *)
(***************************************************************************)
Responses ==
  {[raised |-> TRUE, status |-> 0], [raised |-> FALSE, status |-> 204],
   [raised |-> FALSE, status |-> 200]}

(* A variant: the status is not looked at                                  *)
download_csvAnyStatus(response) == IF response.raised THEN "URLError" ELSE ""

download_csv(response) ==
  IF response.raised THEN "URLError"
  ELSE IF response.status # 200 THEN "Exception"
  ELSE ""

(***************************************************************************)
(* The inputs: rows of the two tables.                                     *)
(***************************************************************************)
SeqsUpTo(S, n) == UNION {[1..k -> S] : k \in 0..n}

AirportRow(icao, lat, lon, absent) ==
  [ICAO |-> icao, lat |-> lat, lon |-> lon, absent |-> absent]

FreqRow(airport, frequency, type, absent) ==
  [airport |-> airport, frequency |-> frequency, type |-> type, absent |-> absent]

MaxAirportRows == 2

MaxFreqRows == 3

AirportRows ==
  {AirportRow("KLAX", <<"3", "3", ".", "9", "4", "2", "6">>,
                      <<"-", "1", "1", "8", ".", "4", "0", "8">>, {}),
   AirportRow("CZBB", <<"4", "9", ".", "1">>, <<"-", "1", "2", "3">>, {})}

F118 == <<"1", "1", "8", ".", "0">>

F118000 == <<"1", "1", "8", "0", "0", "0">>

F119_8 == <<"1", "1", "9", ".", "8">>

FreqRows ==
  {FreqRow("KLAX", F118, <<"TOWER">>, {}),
   FreqRow("KLAX", F118, <<"XYZ">>, {}),
   FreqRow("KLAX", F119_8, <<"TOWER">>, {}),
   FreqRow("KLAX", F118000, <<" ">>, {}),
   FreqRow("KLAX", F118000, <<" ", "tower", "\t">>, {}),
   FreqRow("CZBB", F119_8, <<>>, {})}

(***************************************************************************)
(* The script, top to bottom.                                              *)
(***************************************************************************)
Init ==
  /\ pc = "fetch_airports"
  /\ exc = ""
  /\ fetched = <<>>
  /\ airports_reader = <<>>
  /\ airports = <<>>
  /\ freq_reader = <<>>
  /\ TYPE_MAP_bound = FALSE
  /\ airport_list = <<>>
  /\ output_file = [written |-> FALSE, data |-> <<>>]
  /\ stdout = <<>>

Raise(e) == pc' = "raised" /\ exc' = e

(* Lines 25-26 *)
FetchAirports(tables) ==
  /\ pc = "fetch_airports"
  /\ \E response \in Responses :
       /\ fetched' = Append(fetched, response)
       /\ IF download_csv(response) # ""
          THEN /\ Raise(download_csv(response))
               /\ UNCHANGED airports_reader
          ELSE /\ \E rows \in tables : airports_reader' = rows
               /\ pc' = "build_airports"
               /\ UNCHANGED exc
  /\ UNCHANGED <<airports, freq_reader, TYPE_MAP_bound, airport_list,
                 output_file, stdout>>

(* Lines 28-41 *)
BuildAirports ==
  /\ pc = "build_airports"
  /\ airports' = LoadAirports(<<>>, airports_reader)
  /\ pc' = "fetch_freqs"
  /\ UNCHANGED <<exc, fetched, airports_reader, freq_reader, TYPE_MAP_bound,
                 airport_list, output_file, stdout>>

(* Lines 44-45 *)
FetchFrequencies(tables) ==
  /\ pc = "fetch_freqs"
  /\ \E response \in Responses :
       /\ fetched' = Append(fetched, response)
       /\ IF download_csv(response) # ""
          THEN /\ Raise(download_csv(response))
               /\ UNCHANGED freq_reader
          ELSE /\ \E rows \in tables : freq_reader' = rows
               /\ pc' = "attach_freqs"
               /\ UNCHANGED exc
  /\ UNCHANGED <<airports_reader, airports, TYPE_MAP_bound, airport_list,
                 output_file, stdout>>

(* Lines 47-65 *)
AttachFrequencies ==
  /\ pc = "attach_freqs"
  /\ LET r == LoadFreqs(airports, freq_reader)
     IN  /\ airports' = r.airports
         /\ IF r.exc # "" THEN Raise(r.exc)
            ELSE pc' = "dedup" /\ UNCHANGED exc
  /\ UNCHANGED <<fetched, airports_reader, freq_reader, TYPE_MAP_bound,
                 airport_list, output_file, stdout>>

(* Lines 69-110 *)
Deduplicate ==
  /\ pc = "dedup"
  /\ LET r == DedupAll(airports)
     IN  /\ airports' = r.airports
         /\ TYPE_MAP_bound' = r.bound
         /\ IF r.exc # "" THEN Raise(r.exc)
            ELSE pc' = "filter" /\ UNCHANGED exc
  /\ UNCHANGED <<fetched, airports_reader, freq_reader, airport_list,
                 output_file, stdout>>

(* Line 113 *)
Filter ==
  /\ pc = "filter"
  /\ airport_list' = KeepWithFrequencies(airports)
  /\ pc' = "save"
  /\ UNCHANGED <<exc, fetched, airports_reader, airports, freq_reader, TYPE_MAP_bound,
                 output_file, stdout>>

(* Lines 116-117 *)
Save ==
  /\ pc = "save"
  /\ output_file' = [written |-> TRUE, data |-> airport_list]
  /\ pc' = "report_count"
  /\ UNCHANGED <<exc, fetched, airports_reader, airports, freq_reader, TYPE_MAP_bound,
                 airport_list, stdout>>

(* Line 119 *)
ReportCount ==
  /\ pc = "report_count"
  /\ stdout' = Append(stdout, Len(airport_list))
  /\ pc' = "report_types"
  /\ UNCHANGED <<exc, fetched, airports_reader, airports, freq_reader, TYPE_MAP_bound,
                 airport_list, output_file>>

(* Line 120: the name TYPE_MAP is bound only if line 92 has run *)
ReportTypes ==
  /\ pc = "report_types"
  /\ IF TYPE_MAP_bound
     THEN /\ stdout' = Append(stdout, Cardinality(DOMAIN TYPE_MAP))
          /\ pc' = "done"
          /\ UNCHANGED exc
     ELSE /\ Raise("NameError")
          /\ UNCHANGED stdout
  /\ UNCHANGED <<fetched, airports_reader, airports, freq_reader,
                 TYPE_MAP_bound, airport_list, output_file>>

Pipeline(airportTables, freqTables) ==
  \/ FetchAirports(airportTables)
  \/ BuildAirports
  \/ FetchFrequencies(freqTables)
  \/ AttachFrequencies
  \/ Deduplicate
  \/ Filter
  \/ Save
  \/ ReportCount
  \/ ReportTypes

Next ==
  Pipeline(SeqsUpTo(AirportRows, MaxAirportRows), SeqsUpTo(FreqRows, MaxFreqRows))

Spec == Init /\ [][Next]_vars

(***************************************************************************)
(* A second set of inputs: rows with defects.                              *)
(***************************************************************************)
MaxDefectAirportRows == 2

MaxDefectFreqRows == 2

LAT == <<"3", "3", ".", "9", "4", "2", "6">>

LON == <<"-", "1", "1", "8", ".", "4", "0", "8">>

DefectAirportRows ==
  {AirportRow("KLAX", LAT, LON, {}),
   AirportRow("KLAX", <<"a", "b", "c">>, LON, {}),
   AirportRow("", LAT, LON, {}),
   AirportRow("CZBB", LAT, <<>>, {"lon"}),
   AirportRow("CZBB", <<"4", "9", ".", "1">>, <<"-", "1", "2", "3">>, {})}

DefectFreqRows ==
  {FreqRow("KLAX", F118, <<>>, {}),
   FreqRow("KLAX", <<"9", "9", ".", "5">>, <<>>, {}),
   FreqRow("CZBB", F118, <<"TOWER">>, {}),
   FreqRow("", F118, <<>>, {"airport"}),
   FreqRow("KLAX", F118, <<>>, {"type"})}

NextRows ==
  Pipeline(SeqsUpTo(DefectAirportRows, MaxDefectAirportRows),
           SeqsUpTo(DefectFreqRows, MaxDefectFreqRows))

SpecRows == Init /\ [][NextRows]_vars

(***************************************************************************)
(* A third set of inputs: the raw frequency values around the limits of    *)
(* the validation.                                                         *)
(***************************************************************************)
MaxRawFreqRows == 2

RawValues ==
  {<<"9", "9", ".", "5">>, <<"1", "0", "8">>, <<"1", "3", "7">>,
   <<"2", "5", "0">>, <<"5", "0", "0">>, F118000,
   <<"1", "3", "7", "0", "0", "1">>, <<"1", "1", "8", ".", "0", "0", "0", "6">>,
   <<"a", "b", "c">>, <<>>}

RawFreqRows ==
  {FreqRow("KLAX", fr, <<>>, {}) : fr \in RawValues}
  \cup {FreqRow("KLAX", <<>>, <<>>, {"frequency"})}

NextValues ==
  Pipeline(SeqsUpTo(AirportRows, MaxAirportRows),
           SeqsUpTo(RawFreqRows, MaxRawFreqRows))

SpecValues == Init /\ [][NextValues]_vars

(***************************************************************************)
(* Properties.                                                             *)
(***************************************************************************)
DownloadErrors == {"URLError", "Exception"}

(* The deduplication loop has run over every airport                       *)
DedupDone ==
  \/ pc \in {"filter", "save", "report_count", "report_types", "done"}
  \/ pc = "raised" /\ exc = "NameError"

(* The observations of the frequency table that were attached to the       *)
(* airport with code c, in row order: matched and in the band              *)
ObsRows(c) ==
  SelectSeq(freq_reader,
            LAMBDA r : /\ ~IsNone(r, "airport")
                       /\ r.airport = c
                       /\ Truthy(r, "frequency", <<>>)
                       /\ FreqKhz(r.frequency) # 0)

ObsKhzRows(c, k) == SelectSeq(ObsRows(c), LAMBDA r : FreqKhz(r.frequency) = k)

Label(r) == strip(r.type)

HasTyped(rows) == \E j \in 1..Len(rows) : Label(rows[j]) # ""

FirstTyped(rows) ==
  rows[CHOOSE j \in 1..Len(rows) :
         Label(rows[j]) # "" /\ \A j2 \in 1..(j - 1) : Label(rows[j2]) = ""]

EntriesAt(f, k) == {n \in 1..Len(f) : f[n].f = k}

(* C1: once the deduplication has run, a kHz value of which at least one   *)
(* matched in-band observation had a non-empty trimmed label has exactly   *)
(* one entry in the airport's list, and that entry is a typed [k, code]    *)
(* entry, whatever the order of the typed and untyped observations.        *)
C1_TypedObservationSurvives ==
  DedupDone =>
    \A i \in 1..Len(airports) :
      LET rows == ObsRows(airports[i].c)
          f    == airports[i].f
      IN  \A j \in 1..Len(rows) :
            Label(rows[j]) # "" =>
              LET k == FreqKhz(rows[j].frequency)
              IN  /\ Cardinality(EntriesAt(f, k)) = 1
                  /\ \A n \in EntriesAt(f, k) : f[n].kind = "list"

(* An untyped observation of a value came before a typed one of the same   *)
(* value, and the list has the typed entry.                                *)
C1_Witness ==
  /\ DedupDone
  /\ \E i \in 1..Len(airports) :
       LET rows == ObsRows(airports[i].c)
           f    == airports[i].f
       IN  \E j1, j2 \in 1..Len(rows) :
             /\ j1 < j2
             /\ FreqKhz(rows[j1].frequency) = FreqKhz(rows[j2].frequency)
             /\ Label(rows[j1]) = ""
             /\ Label(rows[j2]) # ""
             /\ \E n \in 1..Len(f) :
                  f[n].f = FreqKhz(rows[j2].frequency) /\ f[n].kind = "list"

StrictlyAscending(f) == \A n \in 1..(Len(f) - 1) : f[n].f < f[n + 1].f

(* C2: every airport's frequency list, after the deduplication and in the  *)
(* written output, is strictly ascending by kHz value.                     *)
C2_StrictlyAscending ==
  /\ DedupDone => \A i \in 1..Len(airports) : StrictlyAscending(airports[i].f)
  /\ output_file.written =>
       \A i \in 1..Len(output_file.data) : StrictlyAscending(output_file.data[i].f)

(* The output holds an airport whose observations came in descending       *)
(* order with a duplicate, and whose list has the two values.              *)
C2_Witness ==
  /\ output_file.written
  /\ \E i \in 1..Len(output_file.data) :
       LET rows == ObsRows(output_file.data[i].c)
       IN  /\ Len(rows) = 3
           /\ FreqKhz(rows[1].frequency) > FreqKhz(rows[2].frequency)
           /\ FreqKhz(rows[3].frequency) = FreqKhz(rows[1].frequency)
           /\ Len(output_file.data[i].f) = 2

(* C9: when observations of a kHz value carry non-empty labels, the entry  *)
(* kept for that value carries the (mapped) label of the first of them in  *)
(* row order, however typed and untyped observations are interleaved.      *)
C9_FirstTypedWins ==
  DedupDone =>
    \A i \in 1..Len(airports) :
      LET f == airports[i].f
      IN  \A n \in 1..Len(f) :
            LET rows == ObsKhzRows(airports[i].c, f[n].f)
            IN  HasTyped(rows) =>
                  /\ f[n].kind = "list"
                  /\ f[n].t = TypeMapGet(Label(FirstTyped(rows)))

(* A typed, an untyped and a differently typed observation of one value,   *)
(* in that order, and the list carries the first label.                    *)
C9_Witness ==
  /\ DedupDone
  /\ \E i \in 1..Len(airports) :
       LET f == airports[i].f
       IN  \E n \in 1..Len(f) :
             LET rows == ObsKhzRows(airports[i].c, f[n].f)
             IN  /\ Len(rows) = 3
                 /\ Label(rows[1]) # ""
                 /\ Label(rows[2]) = ""
                 /\ Label(rows[3]) # ""
                 /\ Label(rows[3]) # Label(rows[1])
                 /\ f[n].t = TypeMapGet(Label(rows[1]))

(* The type mapper as section 4.3 of the specification words it            *)
MapperOfSpec(label) ==
  IF label = "" THEN ""
  ELSE IF label \in DOMAIN TYPE_MAP THEN TYPE_MAP[label]
  ELSE label

(* The codes of the observations, each label mapped before any             *)
(* deduplication                                                           *)
MappedCodes(rows) == [j \in 1..Len(rows) |-> MapperOfSpec(Label(rows[j]))]

FirstCode(codes) ==
  codes[CHOOSE j \in 1..Len(codes) :
          codes[j] # "" /\ \A j2 \in 1..(j - 1) : codes[j2] = ""]

(* C8: the code of a typed entry is the mapper applied to the trimmed      *)
(* label of the winning observation (TOWER gives T, a label that is not a  *)
(* key is kept as it is, case-sensitively), observations without a label   *)
(* give a bare number, and the lists are what mapping every label before   *)
(* the deduplication gives.                                                *)
C8_CodeIsMappedLabel ==
  DedupDone =>
    \A i \in 1..Len(airports) :
      LET f == airports[i].f
          c == airports[i].c
      IN  /\ {f[n].f : n \in 1..Len(f)} =
               {FreqKhz(ObsRows(c)[j].frequency) : j \in 1..Len(ObsRows(c))}
          /\ \A n \in 1..Len(f) :
               LET rows  == ObsKhzRows(c, f[n].f)
                   codes == MappedCodes(rows)
               IN  IF \E j \in 1..Len(codes) : codes[j] # ""
                   THEN /\ f[n].kind = "list"
                        /\ f[n].t = FirstCode(codes)
                        /\ Label(FirstTyped(rows)) = "TOWER" => f[n].t = "T"
                        /\ Label(FirstTyped(rows)) = "XYZ" => f[n].t = "XYZ"
                        /\ Label(FirstTyped(rows)) = "tower" => f[n].t = "tower"
                   ELSE f[n].kind = "int"

(* A list with a code from the table and a label kept as it is, the latter *)
(* after a blank-only label for the same value.                            *)
C8_Witness ==
  /\ DedupDone
  /\ \E i \in 1..Len(airports) :
       LET f == airports[i].f
           c == airports[i].c
       IN  /\ \E n \in 1..Len(f) : f[n].kind = "list" /\ f[n].t = "T"
           /\ \E n \in 1..Len(f) :
                /\ f[n].kind = "list" /\ f[n].t = "tower"
                /\ Len(ObsKhzRows(c, f[n].f)) = 2
                /\ ObsKhzRows(c, f[n].f)[1].type = <<" ">>

(* The rows of the frequency table with the code c and a value that        *)
(* float() parses                                                          *)
ParsedRows(c) ==
  SelectSeq(freq_reader,
            LAMBDA r : /\ ~IsNone(r, "airport")
                       /\ r.airport = c
                       /\ Truthy(r, "frequency", <<>>)
                       /\ float(r.frequency).ok)

(* m = v/1000 if v > 500 and m = v otherwise, as the fraction p.num over   *)
(* MHzDen(p)                                                               *)
MHzDen(p) == IF p.num > 500 * p.den THEN 1000 * p.den ELSE p.den

Accepted(p) ==
  ~p.neg /\ 108 * MHzDen(p) <= p.num /\ p.num <= 137 * MHzDen(p)

(* k is an integer nearest to m * 1000                                     *)
NearestKhz(k, p) ==
  LET d == 1000 * p.num - k * MHzDen(p)
  IN  2 * d <= MHzDen(p) /\ 0 - 2 * d <= MHzDen(p)

(* C3: after the frequency loop, the entries of an airport are those of    *)
(* its rows with a parseable value v for which 108 <= m <= 137, where      *)
(* m = v/1000 if v > 500 and m = v otherwise, in row order; the kHz value  *)
(* of each is round(m * 1000) and lies in 108000..137000.  Raw 118000      *)
(* gives 118000, raw 108 and 137 are accepted, raw 99.5, 250, 500 and      *)
(* 137001 give no entry.                                                   *)
C3_ValidationBand ==
  pc = "dedup" =>
    /\ \A i \in 1..Len(airports) :
         LET f   == airports[i].f
             acc == SelectSeq(ParsedRows(airports[i].c),
                              LAMBDA r : Accepted(float(r.frequency)))
         IN  /\ Len(f) = Len(acc)
             /\ \A n \in 1..Len(f) :
                  /\ n <= Len(acc)
                  /\ f[n].f \in 108000..137000
                  /\ NearestKhz(f[n].f, float(acc[n].frequency))
    /\ FreqKhz(F118000) = 118000
    /\ FreqKhz(<<"1", "0", "8">>) = 108000
    /\ FreqKhz(<<"1", "3", "7">>) = 137000
    /\ FreqKhz(<<"9", "9", ".", "5">>) = 0
    /\ FreqKhz(<<"2", "5", "0">>) = 0
    /\ FreqKhz(<<"5", "0", "0">>) = 0
    /\ FreqKhz(<<"1", "3", "7", "0", "0", "1">>) = 0

(* A row with the lower limit of the band and a row with a value in kHz    *)
(* have both given an entry.                                               *)
C3_Witness ==
  /\ pc = "dedup"
  /\ Len(freq_reader) = 2
  /\ freq_reader[1].frequency = <<"1", "0", "8">>
  /\ freq_reader[2].frequency = F118000
  /\ \E i \in 1..Len(airports) :
       /\ Len(airports[i].f) = 2
       /\ airports[i].f[1].f = 108000
       /\ airports[i].f[2].f = 118000

(* An airport row that creates a record: a code and two coordinates that   *)
(* float() parses                                                          *)
CreatesRecord(r) ==
  /\ Truthy(r, "ICAO", "")
  /\ Truthy(r, "lat", <<>>)
  /\ Truthy(r, "lon", <<>>)
  /\ float(r.lat).ok
  /\ float(r.lon).ok

CreatedCodes ==
  {airports_reader[n].ICAO :
     n \in {m \in 1..Len(airports_reader) : CreatesRecord(airports_reader[m])}}

OutputCodes == {output_file.data[i].c : i \in 1..Len(output_file.data)}

(* C4: the written output holds exactly the airports created from a row    *)
(* with a code and two parseable coordinates that have at least one        *)
(* observation that survived the validation, once each, and no record of   *)
(* the output has an empty frequency list.                                 *)
C4_OutputAirports ==
  output_file.written =>
    /\ OutputCodes = {c \in CreatedCodes : Len(ObsRows(c)) > 0}
    /\ Cardinality(OutputCodes) = Len(output_file.data)
    /\ \A i \in 1..Len(output_file.data) : output_file.data[i].f # <<>>

(* Two airports were created, one of them has no valid frequency and is    *)
(* not in the written output, the other is.                                *)
C4_Witness ==
  /\ output_file.written
  /\ Len(airports) = 2
  /\ Len(output_file.data) = 1
  /\ \E i \in 1..2 : airports[i].f = <<>> /\ airports[i].c \notin OutputCodes

(* A frequency row without a defect: every field is there, the code is     *)
(* that of an airport, and the value gives an entry                        *)
SoundFreqRow(r) ==
  /\ r.absent = {}
  /\ r.airport \in CreatedCodes
  /\ r.frequency # <<>>
  /\ FreqKhz(r.frequency) # 0

(* C5: a defect of a row never ends the run; the row is skipped, and the   *)
(* other rows are processed as if it were not there.                       *)
C5_RowDefectNeverAborts ==
  /\ pc = "raised" => exc \in DownloadErrors \/ output_file.written
  /\ pc = "dedup" =>
       airports =
         LoadFreqs(LoadAirports(<<>>, SelectSeq(airports_reader, CreatesRecord)),
                   SelectSeq(freq_reader, SoundFreqRow)).airports

FetchOK(response) == ~response.raised /\ response.status = 200

(* C6: the output is written only after both fetches have succeeded; a     *)
(* fetch that fails ends the run with that failure, nothing is written     *)
(* and no further step is taken.                                           *)
C6_NoOutputAfterFetchFailure ==
  /\ [](output_file.written =>
          Len(fetched) = 2 /\ FetchOK(fetched[1]) /\ FetchOK(fetched[2]))
  /\ []((\E n \in 1..Len(fetched) : ~FetchOK(fetched[n])) =>
          pc = "raised" /\ exc \in DownloadErrors /\ ~output_file.written)
  /\ [][\A n \in 1..Len(fetched) : FetchOK(fetched[n])]_vars

(* The second fetch came back with a status other than 200, after the      *)
(* airports had been built: the run has ended and nothing is written.      *)
C6_Witness ==
  /\ pc = "raised"
  /\ Len(fetched) = 2
  /\ FetchOK(fetched[1])
  /\ ~fetched[2].raised
  /\ fetched[2].status # 200
  /\ airports # <<>>
  /\ ~output_file.written

(* C7: deduplicating a list the deduplication has produced completes       *)
(* without an exception and gives the same list.                           *)
C7_DedupIdempotent ==
  DedupDone =>
    \A i \in 1..Len(airports) :
      /\ DedupList(airports[i].f).exc = ""
      /\ DedupList(airports[i].f).f = airports[i].f

(* C10: the name TYPE_MAP is bound wherever it is read, and a run whose    *)
(* two fetches succeeded ends without an exception, with the output        *)
(* written and the two numbers printed.                                    *)
C10_RunsToCompletion ==
  /\ pc = "report_types" => TYPE_MAP_bound
  /\ pc = "raised" => exc \in DownloadErrors
  /\ pc = "done" =>
       /\ output_file.written
       /\ stdout = <<Len(airport_list), Cardinality(DOMAIN TYPE_MAP)>>

====
